---- MODULE Spec2Model ----
(***************************************************************************)
(* Model of src/server/controller/nginx-proxy.ts: the nginx configuration  *)
(* compiler (genNginxConfig and its helpers) and the lifecycle operations  *)
(* create / update / remove / getInfo / apply that persist a proxy         *)
(* definition and write or delete its configuration file.                  *)
(*                                                                         *)
(* Optional JavaScript values (undefined / present) are modelled as        *)
(* sequences of length 0 or 1: <<>> is undefined, <<v>> is the value v.    *)
(***************************************************************************)
EXTENDS Integers, Sequences, FiniteSets, TLC

VARIABLES
    proxy,      \* compiler run: the NginxProxy handed to genNginxConfig
    config,     \* compiler run: <<>> before the call, <<NginxConfig>> after it
    store,      \* repository: id -> <<>> (no row) or <<NginxProxy>>
    nextId,     \* repository: next generated primary key
    files,      \* file system: id -> <<>> (no file) or <<text>> at NGINX_CONF_DIR/id
    dirExists,  \* file system: NGINX_CONF_DIR exists
    calls,      \* per caller: the record of its in-flight or finished call
    hist        \* history per id: "serial", "overlapped" (two calls were in
                \* flight on the id together) or "ioFailed" (an fs call failed)

vars == <<proxy, config, store, nextId, files, dirExists, calls, hist>>

-----------------------------------------------------------------------------
(* Bounds *)

MaxId == 1          \* ids the repository can generate: 1..MaxId
MaxProxyId == 2     \* ids of the definitions handed to the compiler runs
MaxMechines == 2    \* longest application.mechines list

-----------------------------------------------------------------------------
(* Optional values and JavaScript truthiness *)

Undefined == <<>>
Some(v) == <<v>>
IsDefined(o) == o # <<>>

\* !proxy.domains : undefined and the empty string are falsy
FalsyString(o) == o = <<>> \/ o = <<"">>

\* !mechine.disabled : undefined and false are falsy
FalsyBool(o) == o = <<>> \/ o = <<FALSE>>

-----------------------------------------------------------------------------
(* The compiler *)

validateId(id) == id.isNum /\ id.n > 0

hasMechines(p) ==
    /\ IsDefined(p.application)
    /\ IsDefined(p.application[1].mechines)

genServiceLocation(upstreamName) ==
    [ path |-> "/",
      sendFile |-> "on",
      proxySetHeader |-> << [key |-> "X-Real-IP", value |-> "$remote_addr"],
                            [key |-> "Host", value |-> "$http_host"] >>,
      proxyPass |-> "http://" \o upstreamName ]

genRedirectHttpsLocation ==
    [ path |-> "/",
      rewrite |-> [ from |-> "^/(.*)",
                    to |-> "https://$server_name$1",
                    mode |-> "permanent" ] ]

\* faulty variant: certificate and key swapped
genNginxSSLSwapped(p) ==
    [ certificate |-> p.certificate[1].crtKey,
      certificateKey |-> p.certificate[1].crt,
      sessionTimeout |-> p.sslSessionTimeout,
      protocols |-> p.sslProtocols,
      ciphers |-> p.sslCiphers,
      sessionCache |-> p.sslSessionCache,
      preferServerCiphers |-> p.sslPreferServerCiphers,
      stapling |-> p.sslStapling ]

genNginxSSL(p) ==
    [ certificate |-> p.certificate[1].crt,
      certificateKey |-> p.certificate[1].crtKey,
      sessionTimeout |-> p.sslSessionTimeout,
      protocols |-> p.sslProtocols,
      ciphers |-> p.sslCiphers,
      sessionCache |-> p.sslSessionCache,
      preferServerCiphers |-> p.sslPreferServerCiphers,
      stapling |-> p.sslStapling ]

\* faulty variant: the filter keeps the enabled hosts but builds the list back to front
RECURSIVE FilterEnabledReversed(_)
FilterEnabledReversed(ms) ==
    IF ms = <<>> THEN <<>>
    ELSE IF FalsyBool(Head(ms).disabled)
         THEN FilterEnabledReversed(Tail(ms)) \o <<Head(ms)>>
         ELSE FilterEnabledReversed(Tail(ms))

\* mechines.filter(m => !m.disabled), keeping the order
RECURSIVE FilterEnabled(_)
FilterEnabled(ms) ==
    IF ms = <<>> THEN <<>>
    ELSE IF FalsyBool(Head(ms).disabled)
         THEN <<Head(ms)>> \o FilterEnabled(Tail(ms))
         ELSE FilterEnabled(Tail(ms))

\* .map(m => ({ host: m.host }))
MapHost(ms) == [i \in 1..Len(ms) |-> [host |-> ms[i].host]]

\* `${proxy.id}` : undefined prints as "undefined"
IdText(id) == IF IsDefined(id) THEN ToString(id[1]) ELSE "undefined"

genNginxUpstream(p) ==
    [ name |-> p.application[1].key \o "_" \o IdText(p.id),
      servers |-> MapHost(FilterEnabled(p.application[1].mechines[1])) ]

EmptyConfig == [upstream |-> Undefined, http |-> Undefined, https |-> Undefined]

UpstreamOf(p) == IF hasMechines(p) THEN Some(genNginxUpstream(p)) ELSE Undefined

\* faulty variant: the upstream test comes before the redirect test
HttpOfProxyFirst(p, upstream) ==
    IF p.enableHttp
    THEN Some([ serviceName |-> p.domains[1],
                location |->
                    IF IsDefined(upstream)
                    THEN <<genServiceLocation(upstream[1].name)>>
                    ELSE IF p.redirectHttps THEN <<genRedirectHttpsLocation>>
                         ELSE <<>> ])
    ELSE Undefined

HttpOf(p, upstream) ==
    IF p.enableHttp
    THEN Some([ serviceName |-> p.domains[1],
                location |->
                    IF p.redirectHttps THEN <<genRedirectHttpsLocation>>
                    ELSE IF IsDefined(upstream)
                         THEN <<genServiceLocation(upstream[1].name)>>
                         ELSE <<>> ])
    ELSE Undefined

HttpsOf(p, upstream) ==
    IF p.enableHttps /\ IsDefined(p.certificate)
    THEN Some([ serviceName |-> p.domains[1],
                location |->
                    IF IsDefined(upstream)
                    THEN <<genServiceLocation(upstream[1].name)>>
                    ELSE <<>>,
                ssl |-> genNginxSSL(p) ])
    ELSE Undefined

\* faulty variant: the upstream is built before the domains test
genNginxConfigPoolFirst(p) ==
    LET upstream == UpstreamOf(p)
    IN IF FalsyString(p.domains) THEN [EmptyConfig EXCEPT !.upstream = upstream]
       ELSE [ upstream |-> upstream,
              http |-> HttpOf(p, upstream),
              https |-> HttpsOf(p, upstream) ]

genNginxConfig(p) ==
    IF FalsyString(p.domains) THEN EmptyConfig
    ELSE LET upstream == UpstreamOf(p)
         IN [ upstream |-> upstream,
              http |-> HttpOf(p, upstream),
              https |-> HttpsOf(p, upstream) ]

-----------------------------------------------------------------------------
(* Inputs of the compiler runs *)

Hosts == {"10.0.0.1", "10.0.0.2"}
Mechines == [host : Hosts, disabled : {Undefined, Some(TRUE), Some(FALSE)}]
MechineLists == UNION {[1..n -> Mechines] : n \in 0..MaxMechines}
AppKeys == {"api", "web"}
Applications ==
    {Undefined} \cup
    {Some([key |-> k, mechines |-> ms]) :
        k \in AppKeys, ms \in {Undefined} \cup {Some(l) : l \in MechineLists}}
Certificates == {Undefined, Some([crt |-> "/ssl/a.crt", crtKey |-> "/ssl/a.key"])}
DomainValues == {Undefined, Some(""), Some("a.com")}

\* the six TLS policy fields of the entity; two policies with no value in common
TlsPolicies ==
    { [ sslCiphers |-> "HIGH:!aNULL", sslProtocols |-> "TLSv1.2 TLSv1.3",
        sslSessionCache |-> "shared:SSL:1m", sslSessionTimeout |-> "5m",
        sslPreferServerCiphers |-> "on", sslStapling |-> "off" ],
      [ sslCiphers |-> "ECDHE+AESGCM", sslProtocols |-> "TLSv1.3",
        sslSessionCache |-> "none", sslSessionTimeout |-> "10m",
        sslPreferServerCiphers |-> "off", sslStapling |-> "on" ] }

MkProxy(id, domains, http, https, redirect, app, cert, tls) ==
    [ id |-> id, domains |-> domains, enableHttp |-> http, enableHttps |-> https,
      redirectHttps |-> redirect, application |-> app, certificate |-> cert,
      sslCiphers |-> tls.sslCiphers,
      sslProtocols |-> tls.sslProtocols,
      sslSessionCache |-> tls.sslSessionCache,
      sslSessionTimeout |-> tls.sslSessionTimeout,
      sslPreferServerCiphers |-> tls.sslPreferServerCiphers,
      sslStapling |-> tls.sslStapling ]

ProxyInputs ==
    { MkProxy(Some(id), d, h, hs, r, a, c, t) :
        id \in 1..MaxProxyId, d \in DomainValues, h \in BOOLEAN, hs \in BOOLEAN,
        r \in BOOLEAN, a \in Applications, c \in Certificates, t \in TlsPolicies }

-----------------------------------------------------------------------------
(* Compiler runs: genNginxConfig applied to one bounded input *)

InitGen ==
    /\ proxy \in ProxyInputs
    /\ config = Undefined
    /\ store = [i \in 1..MaxId |-> Undefined]
    /\ nextId = 1
    /\ files = <<>>
    /\ dirExists = FALSE
    /\ calls = <<>>
    /\ hist = <<>>

Compile ==
    /\ config = Undefined
    /\ config' = Some(genNginxConfig(proxy))
    /\ UNCHANGED <<proxy, store, nextId, files, dirExists, calls, hist>>

NextGen == Compile

SpecGen == InitGen /\ [][NextGen]_vars

-----------------------------------------------------------------------------
(* The serializer and the artifact path *)

NGINX_CONF_DIR == "NGINX_CONF_DIR"

\* join(NGINX_CONF_DIR, `${config.id}`)
getNginxConfigPath(p) == NGINX_CONF_DIR \o "/" \o IdText(p.id)

Paths == {NGINX_CONF_DIR \o "/" \o ToString(i) : i \in 1..MaxId}

RECURSIVE RenderServers(_)
RenderServers(servers) ==
    IF servers = <<>> THEN ""
    ELSE "server " \o Head(servers).host \o "; " \o RenderServers(Tail(servers))

RECURSIVE RenderLocations(_)
RenderLocations(locs) ==
    IF locs = <<>> THEN ""
    ELSE LET l == Head(locs)
         IN "location " \o l.path \o " { "
            \o (IF "rewrite" \in DOMAIN l
                THEN "rewrite " \o l.rewrite.from \o " " \o l.rewrite.to
                     \o " " \o l.rewrite.mode \o "; "
                ELSE "proxy_pass " \o l.proxyPass \o "; ")
            \o "} " \o RenderLocations(Tail(locs))

\* stringify(config): the rendered text of a configuration tree
stringify(cfg) ==
    (IF IsDefined(cfg.upstream)
     THEN "upstream " \o cfg.upstream[1].name \o " { "
          \o RenderServers(cfg.upstream[1].servers) \o "} "
     ELSE "")
    \o (IF IsDefined(cfg.http)
        THEN "server { listen 80; server_name " \o cfg.http[1].serviceName \o "; "
             \o RenderLocations(cfg.http[1].location) \o "} "
        ELSE "")
    \o (IF IsDefined(cfg.https)
        THEN "server { listen 443 ssl; server_name " \o cfg.https[1].serviceName
             \o "; ssl_certificate " \o cfg.https[1].ssl.certificate
             \o "; ssl_certificate_key " \o cfg.https[1].ssl.certificateKey \o "; "
             \o RenderLocations(cfg.https[1].location) \o "} "
        ELSE "")

-----------------------------------------------------------------------------
(* Controller calls *)

\* The two callers whose controller calls can be in flight together (an
\* update and a remove of one id need two).
Calls == {"c1", "c2"}

\* An id handed to a controller function.  NumId(k) is the number k; StrId(k)
\* is the numeric string "k" (what a route parameter carries); NoId is
\* undefined.  The repository compares a key with the primary-key column by
\* value, so StrId(k) selects the row k.
NumId(k) == [isNum |-> TRUE, n |-> k]
StrId(k) == [isNum |-> FALSE, n |-> k]
NoId == [isNum |-> FALSE, n |-> 0]
IdArgs == {NumId(k) : k \in 0..MaxId} \cup {StrId(k) : k \in 1..MaxId}

LifecycleApp ==
    Some([key |-> "api",
          mechines |-> Some(<<[host |-> "10.0.0.1", disabled |-> Some(FALSE)]>>)])
LifecycleCert == Some([crt |-> "/ssl/a.crt", crtKey |-> "/ssl/a.key"])
LifecycleTls == CHOOSE t \in TlsPolicies : t.sslStapling = "off"

\* options of create(options)
CreateOptions ==
    { [ id |-> i, domains |-> d, enableHttp |-> TRUE, enableHttps |-> FALSE,
        application |-> LifecycleApp, certificate |-> Undefined ] :
        i \in {NoId, NumId(1)}, d \in {Some("a.com")} }

\* options of update(id, options); a field left out is Undefined
UpdateOptions ==
    { [ domains |-> Some("b.com"), enableHttp |-> Some(FALSE),
        enableHttps |-> Undefined, application |-> Undefined,
        certificate |-> Undefined ] }

IdleCall ==
    [ op |-> "none", pc |-> "idle", arg |-> NoId, entity |-> Undefined,
      result |-> "none", log |-> <<>> ]

Active(c) == calls[c].pc \notin {"idle", "done"}

\* A finished call keeps its outcome in its record until the caller has taken
\* it (Return); the outcome is taken before any other step runs.
NoneDone == \A c \in Calls : calls[c].pc # "done"
TargetId(c) == calls[c].entity[1].id[1]
ActiveOn(id) == \E c \in Calls : Active(c) /\ TargetId(c) = id

\* repository.findOne(id)
findOne(id) == IF id.n \in 1..MaxId THEN store[id.n] ELSE Undefined

\* history: call c starts working on the row id while another call is on it
MarkOverlap(c, id) ==
    IF \E d \in Calls \ {c} : Active(d) /\ TargetId(d) = id
    THEN [hist EXCEPT ![id] = IF @ = "serial" THEN "overlapped" ELSE @]
    ELSE hist

Rejected(c, op, id, why) ==
    calls' = [calls EXCEPT ![c] =
                [IdleCall EXCEPT !.op = op, !.pc = "done", !.arg = id, !.result = why]]

\* lines 151-162: the entity create() builds (redirectHttps is never assigned)
NewEntity(options) ==
    MkProxy(Undefined, options.domains, options.enableHttp, options.enableHttps,
            FALSE, options.application, options.certificate, LifecycleTls)

\* lines 179-183: only truthy options overwrite the loaded entity
ApplyOptions(e, options) ==
    [ e EXCEPT
        !.domains = IF ~FalsyString(options.domains) THEN options.domains ELSE @,
        !.enableHttp = IF options.enableHttp = Some(TRUE) THEN TRUE ELSE @,
        !.enableHttps = IF options.enableHttps = Some(TRUE) THEN TRUE ELSE @,
        !.application = IF IsDefined(options.application) THEN options.application ELSE @,
        !.certificate = IF IsDefined(options.certificate) THEN options.certificate ELSE @ ]

CreateRejected(c, options) ==
    /\ calls[c].pc = "idle"
    /\ NoneDone
    /\ validateId(options.id)
    /\ Rejected(c, "create", options.id, "illegalId")
    /\ UNCHANGED <<proxy, config, store, nextId, files, dirExists, hist>>

\* create: the id check passes, repository.save inserts the row under a fresh id
CreateSave(c, options) ==
    /\ calls[c].pc = "idle"
    /\ NoneDone
    /\ ~validateId(options.id)
    /\ nextId <= MaxId
    /\ LET e == [NewEntity(options) EXCEPT !.id = Some(nextId)]
       IN /\ store' = [store EXCEPT ![nextId] = Some(e)]
          /\ calls' = [calls EXCEPT ![c] =
                [ op |-> "create", pc |-> "ensureDir", arg |-> options.id,
                  entity |-> Some(e), result |-> "none", log |-> <<"save">> ]]
          /\ hist' = MarkOverlap(c, nextId)
    /\ nextId' = nextId + 1
    /\ UNCHANGED <<proxy, config, files, dirExists>>

UpdateRejected(c, id) ==
    /\ calls[c].pc = "idle"
    /\ NoneDone
    /\ validateId(id)
    /\ Rejected(c, "update", id, "illegalId")
    /\ UNCHANGED <<proxy, config, store, nextId, files, dirExists, hist>>

\* update: the id check passes, findOne answers, the options are copied
UpdateFind(c, id, options) ==
    /\ calls[c].pc = "idle"
    /\ NoneDone
    /\ ~validateId(id)
    /\ IF findOne(id) = Undefined
       THEN /\ Rejected(c, "update", id, "noNginxProxy")
            /\ hist' = hist
       ELSE LET e == ApplyOptions(findOne(id)[1], options)
            IN /\ calls' = [calls EXCEPT ![c] =
                     [ op |-> "update", pc |-> "save", arg |-> id,
                       entity |-> Some(e), result |-> "none", log |-> <<>> ]]
               /\ hist' = MarkOverlap(c, e.id[1])
    /\ UNCHANGED <<proxy, config, store, nextId, files, dirExists>>

\* faulty variant: update goes on to apply() without saving the entity
UpdateSaveSkipped(c) ==
    /\ calls[c].pc = "save"
    /\ NoneDone
    /\ calls' = [calls EXCEPT ![c].pc = "ensureDir"]
    /\ UNCHANGED <<proxy, config, store, nextId, files, dirExists, hist>>

\* update: repository.save(nginxProxy)
UpdateSave(c) ==
    /\ calls[c].pc = "save"
    /\ NoneDone
    /\ store' = [store EXCEPT ![TargetId(c)] = calls[c].entity]
    /\ calls' = [calls EXCEPT ![c].pc = "ensureDir",
                              ![c].log = Append(@, "save")]
    /\ UNCHANGED <<proxy, config, nextId, files, dirExists, hist>>

\* apply: fs.ensureDir(NGINX_CONF_DIR)
EnsureDir(c) ==
    /\ calls[c].pc = "ensureDir"
    /\ NoneDone
    /\ dirExists' = TRUE
    /\ calls' = [calls EXCEPT ![c].pc = "writeFile",
                              ![c].log = Append(@, "ensureDir")]
    /\ UNCHANGED <<proxy, config, store, nextId, files, hist>>

IoFailure(c) ==
    /\ calls' = [calls EXCEPT ![c].pc = "done", ![c].result = "ioError"]
    /\ hist' = [hist EXCEPT ![TargetId(c)] = "ioFailed"]

EnsureDirFails(c) ==
    /\ calls[c].pc = "ensureDir"
    /\ NoneDone
    /\ IoFailure(c)
    /\ UNCHANGED <<proxy, config, store, nextId, files, dirExists>>

\* apply: fs.writeFile(CONFIG_PATH, stringify(config))
WriteFile(c) ==
    /\ calls[c].pc = "writeFile"
    /\ NoneDone
    /\ files' = [files EXCEPT ![getNginxConfigPath(calls[c].entity[1])] =
                    Some(stringify(genNginxConfig(calls[c].entity[1])))]
    /\ calls' = [calls EXCEPT ![c].pc = "done", ![c].result = "ok",
                              ![c].log = Append(@, "writeFile")]
    /\ UNCHANGED <<proxy, config, store, nextId, dirExists, hist>>

\* faulty variant: a failed write deletes the row again
WriteFileFailsRollback(c) ==
    /\ calls[c].pc = "writeFile"
    /\ NoneDone
    /\ IoFailure(c)
    /\ store' = [store EXCEPT ![TargetId(c)] = Undefined]
    /\ UNCHANGED <<proxy, config, nextId, files, dirExists>>

WriteFileFails(c) ==
    /\ calls[c].pc = "writeFile"
    /\ NoneDone
    /\ IoFailure(c)
    /\ UNCHANGED <<proxy, config, store, nextId, files, dirExists>>

RemoveRejected(c, id) ==
    /\ calls[c].pc = "idle"
    /\ NoneDone
    /\ validateId(id)
    /\ Rejected(c, "remove", id, "illegalId")
    /\ UNCHANGED <<proxy, config, store, nextId, files, dirExists, hist>>

\* remove: the id check passes, findOne answers
RemoveFind(c, id) ==
    /\ calls[c].pc = "idle"
    /\ NoneDone
    /\ ~validateId(id)
    /\ IF findOne(id) = Undefined
       THEN /\ Rejected(c, "remove", id, "noNginxProxy")
            /\ hist' = hist
       ELSE LET e == findOne(id)[1]
            IN /\ calls' = [calls EXCEPT ![c] =
                     [ op |-> "remove", pc |-> "delete", arg |-> id,
                       entity |-> Some(e), result |-> "none", log |-> <<>> ]]
               /\ hist' = MarkOverlap(c, e.id[1])
    /\ UNCHANGED <<proxy, config, store, nextId, files, dirExists>>

\* remove: repository.delete(id)
RemoveDelete(c) ==
    /\ calls[c].pc = "delete"
    /\ NoneDone
    /\ store' = [store EXCEPT ![calls[c].arg.n] = Undefined]
    /\ calls' = [calls EXCEPT ![c].pc = "pathExists",
                              ![c].log = Append(@, "delete")]
    /\ UNCHANGED <<proxy, config, nextId, files, dirExists, hist>>

\* faulty variant: the existence test is inverted
RemovePathExistsInverted(c) ==
    /\ calls[c].pc = "pathExists"
    /\ NoneDone
    /\ IF ~IsDefined(files[getNginxConfigPath(calls[c].entity[1])])
       THEN calls' = [calls EXCEPT ![c].pc = "fsRemove",
                                   ![c].log = Append(@, "pathExists")]
       ELSE calls' = [calls EXCEPT ![c].pc = "done", ![c].result = "ok",
                                   ![c].log = Append(@, "pathExists")]
    /\ UNCHANGED <<proxy, config, store, nextId, files, dirExists, hist>>

\* remove: fs.pathExists(CONFIG_PATH)
RemovePathExists(c) ==
    /\ calls[c].pc = "pathExists"
    /\ NoneDone
    /\ IF IsDefined(files[getNginxConfigPath(calls[c].entity[1])])
       THEN calls' = [calls EXCEPT ![c].pc = "fsRemove",
                                   ![c].log = Append(@, "pathExists")]
       ELSE calls' = [calls EXCEPT ![c].pc = "done", ![c].result = "ok",
                                   ![c].log = Append(@, "pathExists")]
    /\ UNCHANGED <<proxy, config, store, nextId, files, dirExists, hist>>

\* faulty variant: the file is left in place
RemoveFileKept(c) ==
    /\ calls[c].pc = "fsRemove"
    /\ NoneDone
    /\ calls' = [calls EXCEPT ![c].pc = "done", ![c].result = "ok",
                              ![c].log = Append(@, "remove")]
    /\ UNCHANGED <<proxy, config, store, nextId, files, dirExists, hist>>

\* remove: fs.remove(CONFIG_PATH)
RemoveFile(c) ==
    /\ calls[c].pc = "fsRemove"
    /\ NoneDone
    /\ files' = [files EXCEPT ![getNginxConfigPath(calls[c].entity[1])] = Undefined]
    /\ calls' = [calls EXCEPT ![c].pc = "done", ![c].result = "ok",
                              ![c].log = Append(@, "remove")]
    /\ UNCHANGED <<proxy, config, store, nextId, dirExists, hist>>

RemoveFileFails(c) ==
    /\ calls[c].pc = "fsRemove"
    /\ NoneDone
    /\ IoFailure(c)
    /\ UNCHANGED <<proxy, config, store, nextId, files, dirExists>>

GetInfoRejected(c, id) ==
    /\ calls[c].pc = "idle"
    /\ NoneDone
    /\ validateId(id)
    /\ Rejected(c, "getInfo", id, "illegalId")
    /\ UNCHANGED <<proxy, config, store, nextId, files, dirExists, hist>>

GetInfoFind(c, id) ==
    /\ calls[c].pc = "idle"
    /\ NoneDone
    /\ ~validateId(id)
    /\ IF findOne(id) = Undefined
       THEN Rejected(c, "getInfo", id, "noNginxProxy")
       ELSE calls' = [calls EXCEPT ![c] =
                [IdleCall EXCEPT !.op = "getInfo", !.pc = "done", !.arg = id,
                                 !.entity = findOne(id), !.result = "ok"]]
    /\ UNCHANGED <<proxy, config, store, nextId, files, dirExists, hist>>

\* the caller has taken the outcome of a finished call
Return(c) ==
    /\ calls[c].pc = "done"
    /\ calls' = [calls EXCEPT ![c] = IdleCall]
    /\ UNCHANGED <<proxy, config, store, nextId, files, dirExists, hist>>

Init ==
    /\ proxy = CHOOSE p \in ProxyInputs : TRUE
    /\ config = Undefined
    /\ store = [i \in 1..MaxId |-> Undefined]
    /\ nextId = 1
    /\ files = [f \in Paths |-> Undefined]
    /\ dirExists = FALSE
    /\ calls = [c \in Calls |-> IdleCall]
    /\ hist = [i \in 1..MaxId |-> "serial"]

Next ==
    \E c \in Calls :
        \/ \E o \in CreateOptions : CreateRejected(c, o)
        \/ \E o \in CreateOptions : CreateSave(c, o)
        \/ \E id \in IdArgs : UpdateRejected(c, id)
        \/ \E id \in IdArgs, o \in UpdateOptions : UpdateFind(c, id, o)
        \/ UpdateSave(c)
        \/ EnsureDir(c)
        \/ EnsureDirFails(c)
        \/ WriteFile(c)
        \/ WriteFileFails(c)
        \/ \E id \in IdArgs : RemoveRejected(c, id)
        \/ \E id \in IdArgs : RemoveFind(c, id)
        \/ RemoveDelete(c)
        \/ RemovePathExists(c)
        \/ RemoveFile(c)
        \/ RemoveFileFails(c)
        \/ \E id \in IdArgs : GetInfoRejected(c, id)
        \/ \E id \in IdArgs : GetInfoFind(c, id)
        \/ Return(c)

Spec == Init /\ [][Next]_vars

-----------------------------------------------------------------------------
(* Properties of the lifecycle operations, checked under Spec *)

ArtifactPath(id) == NGINX_CONF_DIR \o "/" \o ToString(id)
IsPrefix(s, t) == Len(s) <= Len(t) /\ \A i \in 1..Len(s) : s[i] = t[i]
Fails(c) == calls[c].result # "ioError" /\ calls'[c].result = "ioError"

\* C6: while the calls on an id are serialized and none of their fs calls has
\* failed, once no call is in flight on the id the file NGINX_CONF_DIR/id holds
\* exactly stringify(genNginxConfig(row)) of the row as last saved; and every
\* create or update runs save, then ensureDir, then writeFile.
C6_ArtifactMatchesSavedRow ==
    /\ \A id \in 1..MaxId :
          (store[id] # Undefined /\ ~ActiveOn(id) /\ hist[id] = "serial") =>
              files[ArtifactPath(id)] = Some(stringify(genNginxConfig(store[id][1])))
    /\ \A c \in Calls :
          calls[c].op \in {"create", "update"} =>
              IsPrefix(calls[c].log, <<"save", "ensureDir", "writeFile">>)
    /\ (\E f \in Paths : files[f] # Undefined) => dirExists

C6_Witness ==
    \E c \in Calls :
        /\ calls[c].op = "update" /\ calls[c].pc = "done" /\ calls[c].result = "ok"
        /\ calls[c].log = <<"save", "ensureDir", "writeFile">>
        /\ hist[calls[c].arg.n] = "serial"
        /\ store[calls[c].arg.n][1].domains = Some("b.com")
        /\ files[ArtifactPath(calls[c].arg.n)] =
              Some(stringify(genNginxConfig(store[calls[c].arg.n][1])))

\* C7 (as claimed, for calls that get past the id check): with the calls on an
\* id serialized and no fs failure, a remove of an id whose row was generated
\* earlier never ends with the not-found error, be it the first remove of the
\* id or a repeated one.
C7_RepeatedRemoveSilent ==
    \A c \in Calls :
        ( /\ calls[c].op = "remove" /\ calls[c].pc = "done"
          /\ ~validateId(calls[c].arg)
          /\ calls[c].arg.n \in 1..(nextId - 1)
          /\ hist[calls[c].arg.n] = "serial"
          /\ \A d \in Calls \ {c} : ~Active(d) ) =>
            calls[c].result # "noNginxProxy"

\* C7 (amended): a remove that ends without error leaves no file at the id's
\* path (it deletes the file if there is one and changes no file otherwise);
\* a remove of an id that has no row changes neither the store nor the files
\* and ends with an error (illegal id or not found).
C7_RemoveOutcome ==
    [][ \A c \in Calls :
          /\ ( /\ calls[c].op = "remove" /\ calls[c].result = "none"
               /\ calls'[c].result = "ok" ) =>
                 /\ files'[ArtifactPath(TargetId(c))] = Undefined
                 /\ files[ArtifactPath(TargetId(c))] = Undefined => files' = files
                 /\ \A f \in Paths \ {ArtifactPath(TargetId(c))} : files'[f] = files[f]
                 /\ store' = store
          /\ ( /\ calls[c].pc = "idle" /\ calls'[c].op = "remove"
               /\ findOne(calls'[c].arg) = Undefined ) =>
                 /\ calls'[c].pc = "done"
                 /\ calls'[c].result \in {"illegalId", "noNginxProxy"}
                 /\ store' = store
                 /\ files' = files
      ]_vars

C7_Witness ==
    \E c \in Calls :
        /\ calls[c].op = "remove" /\ calls[c].pc = "done"
        /\ calls[c].result = "noNginxProxy"
        /\ calls[c].arg.n \in 1..(nextId - 1)
        /\ hist[calls[c].arg.n] = "serial"
        /\ store[calls[c].arg.n] = Undefined
        /\ files[ArtifactPath(calls[c].arg.n)] = Undefined
        /\ dirExists

\* C8: an fs call that fails ends the call with the I/O error, after the
\* store change of the call (save or delete) was made, and changes neither the
\* store nor the files; when the calls on the id were serialized the store
\* then holds the new row (or no row after remove) while the file is as it
\* was before the call.
C8_FailureKeepsStoreChange ==
    [][ \A c \in Calls :
          Fails(c) =>
            /\ calls'[c].pc = "done"
            /\ store' = store
            /\ files' = files
            /\ calls[c].log # <<>>
            /\ calls[c].log[1] = (IF calls[c].op = "remove" THEN "delete" ELSE "save")
            /\ hist[TargetId(c)] = "serial" =>
                 /\ store'[TargetId(c)] =
                       (IF calls[c].op = "remove" THEN Undefined ELSE calls[c].entity)
                 /\ calls[c].op = "remove" => files'[ArtifactPath(TargetId(c))] # Undefined
                 /\ calls[c].op = "create" => files'[ArtifactPath(TargetId(c))] = Undefined
      ]_vars

C8_Witness ==
    \E c \in Calls :
        /\ calls[c].op = "update" /\ calls[c].pc = "done"
        /\ calls[c].result = "ioError"
        /\ \A d \in Calls \ {c} : calls[d].pc = "idle"
        /\ store[TargetId(c)] = calls[c].entity
        /\ files[ArtifactPath(TargetId(c))] # Undefined
        /\ files[ArtifactPath(TargetId(c))] #
              Some(stringify(genNginxConfig(store[TargetId(c)][1])))

\* C9: while the calls on an id are serialized and no fs call has failed, no
\* state with every call on the id finished has the row gone and the file
\* still there.  (The witness is the state the claim says unserialized calls
\* reach: update and remove of one id overlapped, no fs call failed, both
\* finished, the row is gone and the file exists.)
C9_NoOrphanWhenSerialized ==
    \A id \in 1..MaxId :
        (hist[id] = "serial" /\ ~ActiveOn(id)) =>
            ~(store[id] = Undefined /\ files[ArtifactPath(id)] # Undefined)

C9_Witness ==
    \E id \in 1..MaxId, c \in Calls :
        /\ hist[id] = "overlapped"
        /\ \A d \in Calls : ~Active(d)
        /\ calls[c].op = "update" /\ calls[c].pc = "done" /\ calls[c].result = "ok"
        /\ calls[c].arg.n = id
        /\ store[id] = Undefined
        /\ files[ArtifactPath(id)] # Undefined

\* C10: getInfo, update and remove end with the illegal-id error exactly when
\* the id is not a positive number.
C10_IllegalIdIffNotPositiveNumber ==
    \A c \in Calls :
        (calls[c].pc = "done" /\ calls[c].op \in {"getInfo", "update", "remove"}) =>
            ( calls[c].result = "illegalId" <=>
                ~(calls[c].arg.isNum /\ calls[c].arg.n > 0) )

-----------------------------------------------------------------------------
(* Properties of the compiler, checked under SpecGen *)

Compiled == IsDefined(config)
HasDomains == proxy.domains # Undefined /\ proxy.domains # Some("")
HasPool == config[1].upstream # Undefined
CollectionPresent ==
    proxy.application # Undefined /\ proxy.application[1].mechines # Undefined
TargetList == proxy.application[1].mechines[1]

\* hosts of the targets whose disabled flag is not true, in the original order
ExpectedHosts ==
    LET kept == SelectSeq(TargetList, LAMBDA m : m.disabled # Some(TRUE))
    IN [i \in 1..Len(kept) |-> [host |-> kept[i].host]]

IsRedirectOnly(locs) ==
    /\ Len(locs) = 1
    /\ DOMAIN locs[1] = {"path", "rewrite"}
    /\ locs[1].path = "/"
    /\ locs[1].rewrite =
         [from |-> "^/(.*)", to |-> "https://$server_name$1", mode |-> "permanent"]

IsProxyOnly(locs, poolName) ==
    /\ Len(locs) = 1
    /\ "rewrite" \notin DOMAIN locs[1]
    /\ locs[1].path = "/"
    /\ locs[1].proxyPass = "http://" \o poolName

\* C1: a definition whose domains is absent or empty compiles to the empty
\* tree (no upstream pool, no HTTP block, no HTTPS block), whatever its
\* other fields are.
C1_EmptyDomainsEmptyTree ==
    (Compiled /\ ~HasDomains) =>
        /\ config[1].upstream = Undefined
        /\ config[1].http = Undefined
        /\ config[1].https = Undefined

C1_Witness ==
    /\ Compiled
    /\ proxy.domains = Some("")
    /\ proxy.enableHttp /\ proxy.enableHttps /\ proxy.redirectHttps
    /\ proxy.certificate # Undefined
    /\ CollectionPresent /\ Len(TargetList) > 0
    /\ config[1] = [upstream |-> <<>>, http |-> <<>>, https |-> <<>>]

\* C2: an attached pool is named {application.key}_{id} and lists exactly the
\* hosts of the targets with disabled # true, in the application's order;
\* when every target is disabled the pool is present with an empty list.
C2_PoolNameAndTargets ==
    /\ (Compiled /\ HasPool) =>
          /\ config[1].upstream[1].name =
                proxy.application[1].key \o "_" \o ToString(proxy.id[1])
          /\ config[1].upstream[1].servers = ExpectedHosts
    /\ ( /\ Compiled /\ HasDomains /\ CollectionPresent
         /\ Len(TargetList) > 0
         /\ \A i \in 1..Len(TargetList) : TargetList[i].disabled = Some(TRUE) ) =>
          (HasPool /\ config[1].upstream[1].servers = <<>>)

C2_Witness ==
    /\ Compiled /\ HasPool
    /\ proxy.id = Some(2) /\ proxy.application[1].key = "web"
    /\ Len(TargetList) = 2
    /\ TargetList[1] = [host |-> "10.0.0.2", disabled |-> Some(FALSE)]
    /\ TargetList[2] = [host |-> "10.0.0.1", disabled |-> Undefined]
    /\ config[1].upstream[1] =
         [name |-> "web_2", servers |-> <<[host |-> "10.0.0.2"], [host |-> "10.0.0.1"]>>]

\* C3: with non-empty domains the HTTP block exists iff enableHttp; its
\* serviceName is domains; its locations are one redirect location when
\* redirectHttps, else one proxy location to http://<pool> when a pool is
\* attached, else none.
C3_HttpBlock ==
    (Compiled /\ HasDomains) =>
        /\ (config[1].http # Undefined) <=> proxy.enableHttp
        /\ proxy.enableHttp =>
              /\ config[1].http[1].serviceName = proxy.domains[1]
              /\ IF proxy.redirectHttps
                 THEN IsRedirectOnly(config[1].http[1].location)
                 ELSE IF HasPool
                      THEN IsProxyOnly(config[1].http[1].location,
                                       config[1].upstream[1].name)
                      ELSE config[1].http[1].location = <<>>

C3_Witness ==
    /\ Compiled /\ HasDomains /\ HasPool
    /\ proxy.enableHttp /\ proxy.redirectHttps
    /\ IsRedirectOnly(config[1].http[1].location)

\* C4: with non-empty domains the HTTPS block exists iff enableHttps and a
\* certificate is present; its serviceName is domains, its SSL block carries
\* crt, crtKey and the six TLS policy fields unchanged, and its locations are
\* one proxy location to the pool when a pool is attached and none otherwise,
\* never a redirect, whatever redirectHttps is.
C4_HttpsBlock ==
    (Compiled /\ HasDomains) =>
        /\ (config[1].https # Undefined) <=>
              (proxy.enableHttps /\ proxy.certificate # Undefined)
        /\ (config[1].https # Undefined) =>
              /\ config[1].https[1].serviceName = proxy.domains[1]
              /\ config[1].https[1].ssl.certificate = proxy.certificate[1].crt
              /\ config[1].https[1].ssl.certificateKey = proxy.certificate[1].crtKey
              /\ config[1].https[1].ssl.sessionTimeout = proxy.sslSessionTimeout
              /\ config[1].https[1].ssl.protocols = proxy.sslProtocols
              /\ config[1].https[1].ssl.ciphers = proxy.sslCiphers
              /\ config[1].https[1].ssl.sessionCache = proxy.sslSessionCache
              /\ config[1].https[1].ssl.preferServerCiphers = proxy.sslPreferServerCiphers
              /\ config[1].https[1].ssl.stapling = proxy.sslStapling
              /\ IF HasPool
                 THEN IsProxyOnly(config[1].https[1].location,
                                  config[1].upstream[1].name)
                 ELSE config[1].https[1].location = <<>>

C4_Witness ==
    /\ Compiled /\ HasDomains /\ HasPool
    /\ proxy.enableHttps /\ proxy.redirectHttps /\ proxy.certificate # Undefined
    /\ config[1].https # Undefined
    /\ IsProxyOnly(config[1].https[1].location, config[1].upstream[1].name)

\* C5: with non-empty domains a pool is attached iff the definition has an
\* application whose target collection is non-empty; an absent application
\* or a present collection with zero elements gives no pool.
C5_PoolIffNonEmptyCollection ==
    (Compiled /\ HasDomains) =>
        (HasPool <=> (CollectionPresent /\ Len(TargetList) > 0))

====
